---- MODULE Spec2Model ----
(***************************************************************************)
(* Chat Markers: the content script (content.js), the options page         *)
(* (options.js) and chrome.storage.local between them.                     *)
(*                                                                         *)
(* JavaScript strings are sequences of UTF-16 code units; a field a        *)
(* JavaScript object may lack (msgRef, hash, snippet, indexHint, note,     *)
(* _domEl, _missing) is a field the record may lack.                       *)
(***************************************************************************)
EXTENDS Integers, Sequences, FiniteSets, TLC

VARIABLES
  dom,        \* the page's message elements, in document order: [role, text]
  stored,     \* resolver harness: the storedMarkers argument of remapMarkers
  remapped,   \* resolver harness: the scan and what remapMarkers returned for it
  trial,      \* function harness: the inputs of a function and its results so far
  \* the browser
  location,       \* location.pathname
  storage,        \* chrome.storage.local: key -> value
  files,          \* the files the two export buttons downloaded last
  \* content.js
  lastPathname,
  chatKey,
  markers,
  ready,          \* init has built the sidebar and injected the note buttons
  modalEl,        \* the open modal: the marker and msgRefData openModal was given
  relinkActiveId,
  relinkTargets,  \* the elements that carry the onRelinkClick listener
  pending,        \* the handlers suspended at an await on chrome.storage, oldest first
  reading,        \* importNotes suspended at await file.text()
  nextId,         \* how many ids genId has made
  toast,          \* what #cm-toast shows: the last showToast
  \* options.js
  importing,      \* importFile, suspended at one of its awaits
  \* what happened (history, for the properties)
  gestures,       \* how many user gestures there have been
  op,             \* the handler that ran last
  lastImport,     \* the last import that merged: its inputs and its outcome
  exportedFrom,   \* what storage held when each file of `files` was exported
  created,        \* the markers saveMarkerFromModal created: where, on which element
  origin,         \* <<id, key>>: the marker was loaded, created or imported under key
  loadedKey       \* the key whose collection `markers` was loaded from

(***************************************************************************)
(* Strings                                                                 *)
(***************************************************************************)
\* String.prototype.repeat for a one-unit string
Rep(c, n) == [i \in 1..n |-> c]

\* \s of a JavaScript regular expression, over the code units the model uses
IsSpace(c) == c \in {9, 10, 13, 32}

\* String.prototype.slice(0, n)
Slice(s, n) == IF Len(s) <= n THEN s ELSE SubSeq(s, 1, n)

RECURSIVE TrimStart(_)
TrimStart(s) ==
  IF s = <<>> THEN s
  ELSE IF IsSpace(Head(s)) THEN TrimStart(Tail(s)) ELSE s

RECURSIVE TrimEnd(_)
TrimEnd(s) ==
  IF s = <<>> THEN s
  ELSE IF IsSpace(s[Len(s)]) THEN TrimEnd(SubSeq(s, 1, Len(s) - 1)) ELSE s

\* String.prototype.trim
Trim(s) == TrimEnd(TrimStart(s))

\* s.replace(/\s+/g, ' '): a run of white space keeps its first unit, as a space
CollapseWs(s) ==
  LET marked == [i \in 1..Len(s) |->
                   << IF IsSpace(s[i]) THEN 32 ELSE s[i],
                      IsSpace(s[i]) /\ i > 1 /\ IsSpace(s[i - 1]) >>]
      Kept(p) == ~p[2]
      kept   == SelectSeq(marked, Kept)
  IN  [i \in 1..Len(kept) |-> kept[i][1]]

\* String.prototype.toLowerCase on the ASCII letters
ToLowerCase(s) == [i \in 1..Len(s) |-> IF s[i] \in 65..90 THEN s[i] + 32 ELSE s[i]]

\* String.prototype.startsWith
StartsWith(s, p) == Len(p) <= Len(s) /\ SubSeq(s, 1, Len(p)) = p

(***************************************************************************)
(* hashString: DJB2 with xor, on 32-bit integers.  A 32-bit value is the   *)
(* pair <<high 16 bits, low 16 bits>>.                                     *)
(***************************************************************************)
Word == 65536

RECURSIVE Xor(_, _, _)
\* a ^ b on the low n bits
Xor(a, b, n) ==
  IF n = 0 THEN 0
  ELSE ((a + b) % 2) + 2 * Xor(a \div 2, b \div 2, n - 1)

\* one round of the loop: h = ((h << 5) + h) ^ c
HashStep(h, c) ==
  LET lo33 == h[2] * 33
      hi33 == h[1] * 33 + (lo33 \div Word)
  IN  << hi33 % Word, Xor(lo33 % Word, c, 16) >>

RECURSIVE HashLoop(_, _, _, _)
\* the loop over str[from..to] (1-based), split in halves
HashLoop(h, str, from, to) ==
  IF from > to THEN h
  ELSE IF from = to THEN HashStep(h, str[from])
  ELSE LET mid  == (from + to) \div 2
           left == HashLoop(h, str, from, mid)
       IN  \* the left half is evaluated before the right half starts
           IF left # <<>> THEN HashLoop(left, str, mid + 1, to) ELSE left

\* one digit of Number.prototype.toString(36)
Digit36(d) == IF d < 10 THEN 48 + d ELSE 87 + d

RECURSIVE ToString36(_)
\* (h >>> 0).toString(36)
ToString36(h) ==
  LET qhi == h[1] \div 36
      mid == (h[1] % 36) * Word + h[2]
      q   == << qhi, mid \div 36 >>
  IN  IF q = <<0, 0>> THEN << Digit36(mid % 36) >>
      ELSE ToString36(q) \o << Digit36(mid % 36) >>

hashString(str) == ToString36(HashLoop(<<0, 5381>>, str, 1, Len(str)))

(***************************************************************************)
(* Message discovery                                                       *)
(***************************************************************************)
\* the code units of a data-message-author-role attribute value
RoleStr(role) ==
  CASE role = "user"      -> <<117, 115, 101, 114>>
    [] role = "assistant" -> <<97, 115, 115, 105, 115, 116, 97, 110, 116>>
    [] OTHER              -> <<>>

\* the separator hashString's callers put between role and text: '||'
Sep == <<124, 124>>

SnippetLen == 120
HashTextLen == 120
PrefixLen == 40

buildMsgHash(role, text) ==
  hashString(RoleStr(role) \o Sep \o Slice(Trim(text), HashTextLen))

\* getTextSnippet(el), len left at its default
getTextSnippet(text) == Slice(CollapseWs(Trim(text)), SnippetLen)

\* an element handle is the element's position in the document; null is Null
Null == -1

\* discoverMessages() over the page's elements
discoverMessages(elements) ==
  [i \in 1..Len(elements) |->
     LET role    == elements[i].role
         snippet == getTextSnippet(elements[i].text)
     IN  [el |-> i - 1, role |-> role, index |-> i - 1,
          hash |-> buildMsgHash(role, snippet), snippet |-> snippet]]

(***************************************************************************)
(* remapMarkers                                                            *)
(***************************************************************************)
Has(obj, field) == field \in DOMAIN obj

Abs(n) == IF n < 0 THEN -n ELSE n

\* Array.prototype.find, as the position (1-based) of the element found, 0 for
\* undefined.  Test(m) is the callback.
Find(arr, Test(_)) ==
  LET hits == {i \in 1..Len(arr) : Test(arr[i])}
  IN  IF hits = {} THEN 0 ELSE CHOOSE i \in hits : \A j \in hits : i <= j

\* Array.prototype.filter, as the positions kept, in order
RECURSIVE FilterIdx(_, _, _)
FilterIdx(arr, Test(_), i) ==
  IF i > Len(arr) THEN <<>>
  ELSE (IF Test(arr[i]) THEN <<i>> ELSE <<>>) \o FilterIdx(arr, Test, i + 1)

\* mutant: an equally near later message replaces best
Nearer_LastWins(msgs, hint, best, m) ==
  IF Abs(msgs[m].index - hint) <= Abs(msgs[best].index - hint) THEN m ELSE best

\* the callback of the reduce: strictly nearer replaces best
Nearer(msgs, hint, best, m) ==
  IF Abs(msgs[m].index - hint) < Abs(msgs[best].index - hint) THEN m ELSE best

RECURSIVE ReduceNearest(_, _, _, _, _)
\* sameRole.reduce(callback) without an initial value: best starts as sameRole[0]
ReduceNearest(msgs, sameRole, hint, best, k) ==
  IF k > Len(sameRole) THEN best
  ELSE ReduceNearest(msgs, sameRole, hint, Nearer(msgs, hint, best, sameRole[k]), k + 1)

\* 1) Exact hash
TierHash(ref, msgs) ==
  LET Test(m) == Has(ref, "hash") /\ m.hash = ref.hash
  IN  Find(msgs, Test)

\* mutant: the whole snippet of the reference is the prefix
TierSnippet_WholeSnippet(ref, msgs) ==
  IF Has(ref, "snippet") /\ ref.snippet # <<>>
  THEN LET prefix  == ToLowerCase(ref.snippet)
           Test(m) == /\ Has(ref, "role") /\ m.role = ref.role
                      /\ StartsWith(ToLowerCase(m.snippet), prefix)
       IN  Find(msgs, Test)
  ELSE 0

\* 2) Role + snippet prefix; the guard is JavaScript truthiness of ref.snippet
TierSnippet(ref, msgs) ==
  IF Has(ref, "snippet") /\ ref.snippet # <<>>
  THEN LET prefix  == ToLowerCase(Slice(ref.snippet, PrefixLen))
           Test(m) == /\ Has(ref, "role") /\ m.role = ref.role
                      /\ StartsWith(ToLowerCase(m.snippet), prefix)
       IN  Find(msgs, Test)
  ELSE 0

\* mutant: the nearest message of any role
TierIndex_AnyRole(ref, msgs) ==
  IF Has(ref, "indexHint")
  THEN LET Test(m)  == TRUE
           sameRole == FilterIdx(msgs, Test, 1)
       IN  IF Len(sameRole) > 0
           THEN ReduceNearest(msgs, sameRole, ref.indexHint, sameRole[1], 2)
           ELSE 0
  ELSE 0

\* 3) Index hint fallback
TierIndex(ref, msgs) ==
  IF Has(ref, "indexHint")
  THEN LET Test(m)  == Has(ref, "role") /\ m.role = ref.role
           sameRole == FilterIdx(msgs, Test, 1)
       IN  IF Len(sameRole) > 0
           THEN ReduceNearest(msgs, sameRole, ref.indexHint, sameRole[1], 2)
           ELSE 0
  ELSE 0

\* mutant: the index hint is consulted first
FoundFor_IndexFirst(ref, msgs) ==
  LET f3 == TierIndex(ref, msgs)
      f1 == IF f3 = 0 THEN TierHash(ref, msgs) ELSE f3
  IN  IF f1 = 0 THEN TierSnippet(ref, msgs) ELSE f1

\* the position in currentMsgs of `found`, 0 when found is undefined
FoundFor(ref, msgs) ==
  LET f1 == TierHash(ref, msgs)
      f2 == IF f1 = 0 THEN TierSnippet(ref, msgs) ELSE f1
  IN  IF f2 = 0 THEN TierIndex(ref, msgs) ELSE f2

\* { ...marker, _domEl: e, _missing: b }
WithResolution(marker, e, b) == [_domEl |-> e, _missing |-> b] @@ marker

remapOne(marker, currentMsgs) ==
  IF ~Has(marker, "msgRef") THEN WithResolution(marker, Null, TRUE)
  ELSE LET found == FoundFor(marker.msgRef, currentMsgs)
       IN  WithResolution(marker,
                          IF found # 0 THEN currentMsgs[found].el ELSE Null,
                          found = 0)

remapMarkers(storedMarkers, currentMsgs) ==
  [i \in 1..Len(storedMarkers) |-> remapOne(storedMarkers[i], currentMsgs)]

(***************************************************************************)
(* The resolver on its own: remapMarkers applied, as rebuildUI applies it, *)
(* to stored markers of every shape and to every page of up to MaxMsgs     *)
(* message elements.                                                       *)
(***************************************************************************)
MaxMsgs == 2
MaxHint == 2

Roles == {"user", "assistant"}

\* "Hi"
TextHi == <<72, 105>>
\* "  hi  there\n": white space to trim and to collapse
TextHiThere == <<32, 32, 104, 105, 32, 32, 116, 104, 101, 114, 101, 10>>
\* forty "a" and then "X"
TextLongX == Rep(97, PrefixLen) \o <<88>>
\* thirty-nine "a", "A", and then "Y"
TextLongY == Rep(97, PrefixLen - 1) \o <<65, 89>>
\* "Hello world" and "hello world again"
TextHello == <<72, 101, 108, 108, 111, 32, 119, 111, 114, 108, 100>>
TextHelloAgain == ToLowerCase(TextHello) \o <<32, 97, 103, 97, 105, 110>>
\* SnippetLen "b" and then "c" or "d": the same snippet, the same hash
TextWideC == Rep(98, SnippetLen) \o <<99>>
TextWideD == Rep(98, SnippetLen) \o <<100>>

\* a message element: its data-message-author-role, and the innerText a scan
\* reads from it (taken to be the same at every scan: the label of the note
\* button that injectNoteButtons appends to the element is not part of it)
Element(role, text) == [role |-> role, text |-> text]

Elements ==
  { Element("user", TextHi), Element("assistant", TextHi),
    Element("user", TextHiThere),
    Element("user", TextLongX), Element("user", TextLongY) }

\* the page of the tier-2 scenario: the assistant message at ordinal 4 starts
\* with "hello world"
ScenarioPrefixDom ==
  << Element("user", TextHi), Element("assistant", TextHi),
     Element("user", TextHi), Element("user", TextHi),
     Element("assistant", TextHelloAgain) >>

\* the page of the tier-3 scenario: assistant messages at ordinals 1, 5 and 6
ScenarioNearestDom ==
  << Element("user", TextHi), Element("assistant", TextHi),
     Element("user", TextHi), Element("user", TextHi), Element("user", TextHi),
     Element("assistant", TextHi), Element("assistant", TextHi) >>

\* two messages whose texts differ only after SnippetLen characters
ScenarioWideDom == << Element("user", TextWideC), Element("user", TextWideD) >>

ScenarioDoms == {ScenarioPrefixDom, ScenarioNearestDom, ScenarioWideDom}

\* "zz9": the hash of no message of the model
HashZz9 == <<122, 122, 57>>

\* the reference of both scenarios
ScenarioRef ==
  [role |-> "assistant", hash |-> HashZz9, snippet |-> TextHello, indexHint |-> 3]

\* msgRefData as injectNoteButtons and startRelink build it from a message
MsgRefOf(m) ==
  [role |-> m.role, hash |-> m.hash, snippet |-> m.snippet, indexHint |-> m.index]

Without(obj, fields) == [f \in DOMAIN obj \ fields |-> obj[f]]

\* references as the code writes them, and as older versions and imported
\* files may hold them: without hash, snippet or indexHint, with an empty
\* snippet, with the hash of a message that is gone
RefsOf(e, hint) ==
  LET snippet == getTextSnippet(e.text)
      full == [role |-> e.role, hash |-> buildMsgHash(e.role, snippet),
               snippet |-> snippet, indexHint |-> hint]
      gone == [full EXCEPT !.hash = HashZz9]
  IN  { full, Without(full, {"indexHint"}),
        Without(full, {"hash"}), Without(full, {"hash", "indexHint"}),
        gone, Without(gone, {"indexHint"}),
        Without(gone, {"snippet"}), Without(gone, {"snippet", "indexHint"}),
        [gone EXCEPT !.snippet = <<>>],
        Without([gone EXCEPT !.snippet = <<>>], {"indexHint"}) }

Refs ==
  UNION {RefsOf(e, h) : e \in Elements, h \in 0..MaxHint}
    \cup {ScenarioRef, Without(ScenarioRef, {"snippet"})}

Marker(id, ref) == [id |-> id, msgRef |-> ref, note |-> "x"]

\* a marker without msgRef: remapMarkers's first branch
BareMarker(id) == [id |-> id, note |-> "x"]

StoredLists ==
  {<<Marker("cm-1", r)>> : r \in Refs}
    \cup {<<BareMarker("cm-1")>>, <<>>}
    \cup {<<a, b>> : a \in {BareMarker("cm-1"), Marker("cm-1", ScenarioRef)},
                     b \in {BareMarker("cm-2"), Marker("cm-2", ScenarioRef),
                            Marker("cm-2", Without(ScenarioRef, {"snippet"}))}}

NotCalled == [called |-> FALSE, msgs |-> <<>>, out |-> <<>>]
NoTrial == [step |-> "none"]



(***************************************************************************)
(* Storage                                                                 *)
(***************************************************************************)
SCHEMA_VERSION == 2

\* location.pathname of two conversations
PathA == "/c/aaaaaaaa"
PathB == "/c/bbbbbbbb"
Paths == {PathA, PathB}

\* 'chat_markers::' + the conversation id matched in the pathname
KeyA == "chat_markers::aaaaaaaa"
KeyB == "chat_markers::bbbbbbbb"
Keys == {KeyA, KeyB}

deriveChatKey(pathname) == IF pathname = PathA THEN KeyA ELSE KeyB

\* result[key] of a key that is not stored
Undefined == [shape |-> "undefined"]
\* a bare array of markers, as versions before the envelope stored it
ArrayOf(ms) == [shape |-> "array", markers |-> ms]
\* { schemaVersion, markers }
Envelope(version, ms) == [shape |-> "object", schemaVersion |-> version, markers |-> ms]

\* what chrome.storage keeps of a DOM element: an object without properties
EmptyObject == -2

\* a marker as chrome.storage.local.set serializes it
Serialize(m) ==
  IF Has(m, "_domEl") /\ m._domEl # Null THEN [m EXCEPT !._domEl = EmptyObject] ELSE m

SerializeAll(ms) == [i \in 1..Len(ms) |-> Serialize(ms[i])]

\* the map callback of migrateSchema
migrateOne(m) ==
  IF /\ Has(m, "msgRef")
     /\ ~(Has(m.msgRef, "hash") /\ m.msgRef.hash # <<>>)
     /\ Has(m.msgRef, "snippet") /\ m.msgRef.snippet # <<>>
  THEN [m EXCEPT !.msgRef =
          [hash |-> hashString((IF Has(m.msgRef, "role") THEN RoleStr(m.msgRef.role)
                                ELSE <<>>) \o Sep \o m.msgRef.snippet)] @@ m.msgRef]
  ELSE m

\* migrateSchema that adds one to an old version
migrateSchema_Increment(data) ==
  LET schemaVersion == IF Has(data, "schemaVersion") THEN data.schemaVersion ELSE 1
      ms == IF Has(data, "markers") THEN data.markers ELSE <<>>
  IN  IF schemaVersion < 2
      THEN [schemaVersion |-> schemaVersion + 1,
            markers |-> [i \in 1..Len(ms) |-> migrateOne(ms[i])]]
      ELSE [schemaVersion |-> schemaVersion, markers |-> ms]

\* let { schemaVersion = 1, markers: ms = [] } = data, and what follows
migrateSchema(data) ==
  LET schemaVersion == IF Has(data, "schemaVersion") THEN data.schemaVersion ELSE 1
      ms == IF Has(data, "markers") THEN data.markers ELSE <<>>
  IN  IF schemaVersion < 2
      THEN [schemaVersion |-> 2, markers |-> [i \in 1..Len(ms) |-> migrateOne(ms[i])]]
      ELSE [schemaVersion |-> schemaVersion, markers |-> ms]

\* Array.isArray(raw) ? { schemaVersion: 1, markers: raw } : raw
asData(raw) ==
  IF raw.shape = "array" THEN [schemaVersion |-> 1, markers |-> raw.markers]
  ELSE Without(raw, {"shape"})

\* loadMarkers after the await: raw is result[chatKey], failed a rejected get
loadMarkers(raw, failed) ==
  IF failed \/ raw.shape = "undefined" THEN <<>>
  ELSE migrateSchema(asData(raw)).markers

\* chrome.storage.local.set resolves, rejects for the quota (a message with
\* QUOTA_BYTES), or rejects for another reason
WriteOutcomes == {"ok", "quota", "error"}

\* saveMarkers up to its await: the payload set under the current chatKey,
\* unless the set is rejected
saveMarkers(store, key, markersArr, outcome) ==
  IF outcome = "ok"
  THEN [store EXCEPT ![key] = Envelope(SCHEMA_VERSION, SerializeAll(markersArr))]
  ELSE store

\* the toasts of content.js
QuotaToast == "Storage quota exceeded! Export your notes and delete some."
RelinkToast == "Click a message to re-link this marker."
RelinkedToast == "Marker re-linked!"
ExportedToast == "Exported!"
ImportedToast == "Imported marker(s)."
ImportFailedToast == "Import failed"

\* saveMarkers's catch: the toast after the set has settled
toastAfterSave(outcome, shown) == IF outcome = "quota" THEN QuotaToast ELSE shown

\* existing[key]?.markers || [] of importFile
existingMarkers(raw) == IF raw.shape = "object" THEN raw.markers ELSE <<>>

\* Array.isArray(v) ? v : (v?.markers || []) of loadAllEntries
entryMarkers(raw) == IF raw.shape = "undefined" THEN <<>> ELSE raw.markers

\* loadAllEntries: the stored keys in localeCompare order, each with its markers
loadAllEntries(store) ==
  (IF store[KeyA].shape # "undefined"
   THEN <<[key |-> KeyA, markers |-> entryMarkers(store[KeyA])]>> ELSE <<>>)
  \o (IF store[KeyB].shape # "undefined"
      THEN <<[key |-> KeyB, markers |-> entryMarkers(store[KeyB])]>> ELSE <<>>)

(***************************************************************************)
(* rebuildUI, export, import                                               *)
(***************************************************************************)
\* the conversations as the host renders them
PageA == << Element("user", TextHi), Element("assistant", TextHi),
            Element("user", TextHi) >>
PageB == << Element("assistant", TextHiThere) >>
Page(pathname) == IF pathname = PathA THEN PageA ELSE PageB

\* discoverMessages() on a page of a conversation: the scan of each of the two
\* pages, worked out once
ScanOfPageA == discoverMessages(PageA)
ScanOfPageB == discoverMessages(PageB)
scan(elements) ==
  IF elements = PageA THEN ScanOfPageA
  ELSE IF elements = PageB THEN ScanOfPageB
  ELSE discoverMessages(elements)

\* rebuildUI: markers with the resolution of a fresh scan
rebuildUI(ms, elements) ==
  LET remappedNow == remapMarkers(ms, scan(elements))
  IN  [i \in 1..Len(ms) |->
         WithResolution(ms[i], remappedNow[i]._domEl, remappedNow[i]._missing)]

\* ({ _domEl, _missing, ...clean }) => clean
Clean(m) == Without(m, {"_domEl", "_missing"})
CleanAll(ms) == [i \in 1..Len(ms) |-> Clean(ms[i])]

IdsOf(ms) == {ms[i].id : i \in {j \in 1..Len(ms) : Has(ms[j], "id")}}

\* exportNotes: the file's data
exportNotes(key, ms) ==
  [chatKey |-> key, schemaVersion |-> SCHEMA_VERSION, markers |-> CleanAll(ms)]

\* exportAll: the file's data
exportAll(entries) == [schemaVersion |-> 2, conversations |-> entries]

\* the filter of importNotes: m.id && m.msgRef && m.note !== undefined
ValidMarker(m) == Has(m, "id") /\ Has(m, "msgRef") /\ Has(m, "note")

\* the filter of importFile: m.id && !existingIds.has(m.id)
OptionsToAdd(existing, incoming) ==
  LET Keep(m) == Has(m, "id") /\ m.id \notin IdsOf(existing)
  IN  SelectSeq(incoming, Keep)

\* importNotes between its two awaits: thrown, or the markers to add
importNotes(ms, data) ==
  IF ~Has(data, "markers") THEN [thrown |-> "Invalid format", toAdd |-> <<>>]
  ELSE LET valid == SelectSeq(data.markers, ValidMarker)
           New(m) == m.id \notin IdsOf(ms)
       IN  IF valid = <<>> THEN [thrown |-> "No valid markers found", toAdd |-> <<>>]
           ELSE [thrown |-> "", toAdd |-> SelectSeq(valid, New)]


(***************************************************************************)
(* The extension at work: one tab running content.js, the options page,    *)
(* and chrome.storage.local between them.                                  *)
(*                                                                         *)
(* A call of chrome.storage takes effect when it is made; the handler that *)
(* awaits it resumes later, after any handler that was waiting before it.  *)
(* Tag, color and the two timestamps of a marker are left out: no handler  *)
(* reads them.                                                             *)
(***************************************************************************)
MaxGestures == 3
MaxPending == 2

\* the ids genId makes, in the order it makes them
GenIds == <<"cm-g1", "cm-g2">>
genId(n) == GenIds[n]

\* null, for an id
NoId == ""

NoteMarker(id, ref, note) == [id |-> id, msgRef |-> ref, note |-> note]

RefA(i) == MsgRefOf(ScanOfPageA[i])
RefB(i) == MsgRefOf(ScanOfPageB[i])

\* what storage may hold when the tab opens: nothing; envelopes written by
\* saveMarkers; a bare array written by an older version; a marker without
\* msgRef, as importFile stores one
InitStorages ==
  { [k \in Keys |-> Undefined],
    (KeyA :> Envelope(2, << NoteMarker("cm-1", RefA(2), "x"),
                            NoteMarker("cm-9", RefA(1), "w") >>)
       @@ KeyB :> Envelope(2, << NoteMarker("cm-5", RefB(1), "v") >>)),
    (KeyA :> ArrayOf(<< NoteMarker("cm-1", RefA(2), "x") >>) @@ KeyB :> Undefined),
    (KeyA :> Envelope(2, << BareMarker("cm-3") >>) @@ KeyB :> Undefined) }

\* the files a user has at hand besides the ones exported
FileScenario ==
  [chatKey |-> KeyA, schemaVersion |-> 2,
   markers |-> << NoteMarker("cm-1", RefA(2), "y"), NoteMarker("cm-2", RefA(1), "z") >>]
FileTwice ==
  [chatKey |-> KeyA, schemaVersion |-> 2,
   markers |-> << NoteMarker("cm-2", RefA(1), "z"), NoteMarker("cm-2", RefA(1), "z") >>]
FileAll ==
  [schemaVersion |-> 2,
   conversations |-> << [key |-> KeyA, markers |-> << NoteMarker("cm-1", RefA(2), "y") >>],
                        [key |-> KeyB, markers |-> << NoteMarker("cm-6", RefB(1), "u") >>] >>]
GivenFiles == {FileScenario, FileTwice, FileAll}

NoFile == [none |-> TRUE]
\* per key, the markers stored when a file was exported; nothing for a given file
NotExported == [k \in Keys |-> <<>>]
NoImport == [done |-> FALSE]
NoModal == [open |-> FALSE]
\* #cm-toast does not exist yet
NoToast == "none"
Idle == [active |-> FALSE]

\* a file picked in a file input: the data, and for the properties where it
\* came from
Picked(f, source, from) == [file |-> f, source |-> source, from |-> from]

\* the files a file input can be given
Pickable ==
  {Picked(f, "given", NotExported) : f \in GivenFiles}
    \cup (IF files.single # NoFile
          THEN {Picked(files.single, "exported", exportedFrom.single)} ELSE {})
    \cup (IF files.all # NoFile
          THEN {Picked(files.all, "exported", exportedFrom.all)} ELSE {})

Op(name, id, key) == [name |-> name, id |-> id, key |-> key]

LoadTask(key, value, init) == [k |-> "load", key |-> key, value |-> value, init |-> init]
\* saveMarkerFromModal or deleteMarker suspended at `await saveMarkers`, and how
\* the set will settle
Saved(outcome) == [k |-> "saved", outcome |-> outcome]
\* importNotes suspended at `await saveMarkers`
ImportSaved(outcome) == [k |-> "imported", outcome |-> outcome]
\* onRelinkClick suspended at `await saveMarkers`, and the marker it re-linked
Relinked(id, outcome) == [k |-> "relinked", id |-> id, outcome |-> outcome]

varsHarness == <<stored, remapped, trial>>
varsBrowser == <<dom, location, storage, files>>
varsContent == <<lastPathname, chatKey, markers, ready, modalEl, relinkActiveId,
                 relinkTargets, pending, reading, nextId, toast>>
varsOptions == <<importing>>
varsHistory == <<gestures, op, lastImport, exportedFrom, created, origin, loadedKey>>
vars == <<varsHarness, varsBrowser, varsContent, varsOptions, varsHistory>>

\* the content script has just been started on PathA: init has set chatKey
\* and waits for loadMarkers
Init ==
  /\ stored = <<>> /\ remapped = NotCalled /\ trial = NoTrial
  /\ location = PathA
  /\ dom = Page(PathA)
  /\ storage \in InitStorages
  /\ files = [single |-> NoFile, all |-> NoFile]
  /\ lastPathname = PathA
  /\ chatKey = deriveChatKey(PathA)
  /\ markers = <<>>
  /\ ready = FALSE
  /\ modalEl = NoModal
  /\ relinkActiveId = NoId
  /\ relinkTargets = {}
  /\ pending = << LoadTask(deriveChatKey(PathA), storage[deriveChatKey(PathA)], TRUE) >>
  /\ reading = <<>>
  /\ nextId = 0
  /\ toast = NoToast
  /\ importing = Idle
  /\ gestures = 0
  /\ op = Op("start", NoId, NoId)
  /\ lastImport = NoImport
  /\ exportedFrom = [single |-> NotExported, all |-> NotExported]
  /\ created = {}
  /\ origin = UNION {{<<id, k>> : id \in IdsOf(entryMarkers(storage[k]))} : k \in Keys}
  /\ loadedKey = deriveChatKey(PathA)

Gesture == gestures < MaxGestures /\ gestures' = gestures + 1

CanAwait == Len(pending) < MaxPending

(***************************************************************************)
(* content.js                                                              *)
(***************************************************************************)
\* init and onChatChange after `markers = await loadMarkers()`
LoadDone ==
  /\ pending # <<>> /\ Head(pending).k = "load"
  /\ \E failed \in BOOLEAN :
       LET task == Head(pending)
           raw  == IF task.key = chatKey THEN task.value ELSE Undefined
       IN  /\ markers' = rebuildUI(loadMarkers(raw, failed), dom)
           /\ op' = Op(IF failed THEN "loadFailed" ELSE "loaded",
                       IF task.init THEN "init" ELSE "onChatChange", chatKey)
  /\ pending' = Tail(pending)
  /\ ready' = TRUE
  /\ loadedKey' = chatKey
  /\ UNCHANGED <<toast, varsHarness, varsBrowser, lastPathname, chatKey, modalEl,
                 relinkActiveId, relinkTargets, reading, nextId, importing,
                 gestures, lastImport, exportedFrom, created, origin>>

\* saveMarkerFromModal and deleteMarker after `await saveMarkers` (whose catch
\* shows the quota toast): rebuildUI
SaveDone ==
  /\ pending # <<>> /\ Head(pending).k = "saved"
  /\ pending' = Tail(pending)
  /\ toast' = toastAfterSave(Head(pending).outcome, toast)
  /\ markers' = rebuildUI(markers, dom)
  /\ op' = Op("rebuildUI", NoId, chatKey)
  /\ created' = IF \/ Head(pending).outcome # "ok"
                   \/ \E i \in 1..Len(pending') : pending'[i].k = "saved"
                THEN created
                ELSE {[c EXCEPT !.saved = TRUE] : c \in created}
  /\ UNCHANGED <<varsHarness, varsBrowser, lastPathname, chatKey, ready, modalEl,
                 relinkActiveId, relinkTargets, reading, nextId, importing,
                 gestures, lastImport, exportedFrom, origin, loadedKey>>

\* debouncedRebuild, fired by the MutationObserver
Rescan ==
  /\ ready
  /\ markers' = rebuildUI(markers, dom)
  /\ markers' # markers
  /\ op' = Op("rebuildUI", NoId, chatKey)
  /\ UNCHANGED <<toast, varsHarness, varsBrowser, lastPathname, chatKey, ready, modalEl,
                 relinkActiveId, relinkTargets, pending, reading, nextId, importing,
                 gestures, lastImport, exportedFrom, created, origin, loadedKey>>

\* the click handler of a message's note button
ClickAdd(i) ==
  /\ ready /\ Gesture
  /\ LET m == scan(dom)[i]
         Same(x) == Has(x, "msgRef") /\ Has(x.msgRef, "hash") /\ x.msgRef.hash = m.hash
         found == Find(markers, Same)
     IN  modalEl' = [open |-> TRUE,
                     existing |-> IF found = 0 THEN NoId ELSE markers[found].id,
                     ref |-> MsgRefOf(m)]
  /\ op' = Op("openModal", NoId, chatKey)
  /\ UNCHANGED <<toast, varsHarness, varsBrowser, lastPathname, chatKey, markers, ready,
                 relinkActiveId, relinkTargets, pending, reading, nextId, importing,
                 lastImport, exportedFrom, created, origin, loadedKey>>

\* the Edit button of a note in the list
ClickEdit(id) ==
  /\ ready /\ Gesture
  /\ id \in IdsOf(markers)
  /\ LET SameId(x) == Has(x, "id") /\ x.id = id
         m == markers[Find(markers, SameId)]
     IN  modalEl' = [open |-> TRUE, existing |-> id,
                     ref |-> IF Has(m, "msgRef") THEN m.msgRef ELSE <<>>]
  /\ op' = Op("openModal", id, chatKey)
  /\ UNCHANGED <<toast, varsHarness, varsBrowser, lastPathname, chatKey, markers, ready,
                 relinkActiveId, relinkTargets, pending, reading, nextId, importing,
                 lastImport, exportedFrom, created, origin, loadedKey>>

\* the modal's Cancel and Close buttons, a click on the overlay, Escape
ModalCancel ==
  /\ modalEl.open /\ Gesture
  /\ modalEl' = NoModal
  /\ op' = Op("closeModal", NoId, chatKey)
  /\ UNCHANGED <<toast, varsHarness, varsBrowser, lastPathname, chatKey, markers, ready,
                 relinkActiveId, relinkTargets, pending, reading, nextId, importing,
                 lastImport, exportedFrom, created, origin, loadedKey>>

\* the modal's Save button with a non-empty note: saveMarkerFromModal up to its
\* await, then closeModal
ModalSave(note) ==
  /\ modalEl.open /\ Gesture /\ CanAwait
  /\ LET SameId(x) == Has(x, "id") /\ x.id = modalEl.existing
         idx == Find(markers, SameId)
         new == [id |-> genId(nextId + 1),
                 msgRef |-> [role |-> modalEl.ref.role, hash |-> modalEl.ref.hash,
                             snippet |-> modalEl.ref.snippet,
                             indexHint |-> modalEl.ref.indexHint],
                 note |-> note]
     IN  IF modalEl.existing # NoId
         THEN /\ markers' = IF idx # 0
                            THEN [markers EXCEPT ![idx] = [note |-> note] @@ markers[idx]]
                            ELSE markers
              /\ op' = Op("saveMarkerFromModal", modalEl.existing, chatKey)
              /\ UNCHANGED <<nextId, created, origin>>
         ELSE /\ nextId < Len(GenIds)
              /\ markers' = Append(markers, new)
              /\ nextId' = nextId + 1
              /\ created' = created \cup {[id |-> new.id, key |-> chatKey, path |-> location,
                                           el |-> modalEl.ref.indexHint, saved |-> FALSE]}
              /\ origin' = origin \cup {<<new.id, loadedKey>>}
              /\ op' = Op("saveMarkerFromModal", new.id, chatKey)
  /\ \E outcome \in WriteOutcomes :
       /\ storage' = saveMarkers(storage, chatKey, markers', outcome)
       /\ pending' = Append(pending, Saved(outcome))
  /\ modalEl' = NoModal
  /\ UNCHANGED <<toast, varsHarness, dom, location, files, lastPathname, chatKey, ready,
                 relinkActiveId, relinkTargets, reading, importing,
                 lastImport, exportedFrom, loadedKey>>

\* deleteMarker up to its await
deleteMarker(id) ==
  /\ CanAwait
  /\ LET Other(x) == ~(Has(x, "id") /\ x.id = id)
     IN  markers' = SelectSeq(markers, Other)
  /\ \E outcome \in WriteOutcomes :
       /\ storage' = saveMarkers(storage, chatKey, markers', outcome)
       /\ pending' = Append(pending, Saved(outcome))
  /\ created' = {c \in created : c.id # id}
  /\ op' = Op("deleteMarker", id, chatKey)

\* the modal's Delete button: deleteMarker, then closeModal
ModalDelete ==
  /\ modalEl.open /\ modalEl.existing # NoId /\ Gesture
  /\ deleteMarker(modalEl.existing)
  /\ modalEl' = NoModal
  /\ UNCHANGED <<toast, varsHarness, dom, location, files, lastPathname, chatKey, ready,
                 relinkActiveId, relinkTargets, reading, nextId, importing,
                 lastImport, exportedFrom, origin, loadedKey>>

\* a pip's context menu or a note's Delete button, confirmed
ClickDelete(id) ==
  /\ ready /\ Gesture
  /\ id \in IdsOf(markers)
  /\ deleteMarker(id)
  /\ UNCHANGED <<toast, varsHarness, dom, location, files, lastPathname, chatKey, ready, modalEl,
                 relinkActiveId, relinkTargets, reading, nextId, importing,
                 lastImport, exportedFrom, origin, loadedKey>>


\* the Re-link button of a note shown as missing
startRelink(id) ==
  /\ ready /\ Gesture
  /\ \E i \in 1..Len(markers) :
       /\ Has(markers[i], "id") /\ markers[i].id = id
       /\ Has(markers[i], "_missing") /\ markers[i]._missing = TRUE
  /\ relinkActiveId' = id
  /\ toast' = RelinkToast
  /\ relinkTargets' = {scan(dom)[i].el : i \in 1..Len(dom)}
  /\ op' = Op("startRelink", id, chatKey)
  /\ UNCHANGED <<varsHarness, varsBrowser, lastPathname, chatKey, markers, ready, modalEl,
                 pending, reading, nextId, importing,
                 lastImport, exportedFrom, created, origin, loadedKey>>

\* cancelRelink
cancelRelink ==
  /\ relinkActiveId' = NoId
  /\ relinkTargets' = {}

\* a click on a message that carries the listener (registered once: true):
\* onRelinkClick up to its await, or to its end when it does not await
onRelinkClick(el) ==
  /\ el \in relinkTargets /\ Gesture
  /\ LET data == MsgRefOf(scan(dom)[el + 1])
         SameId(x) == Has(x, "id") /\ x.id = relinkActiveId
         idx == Find(markers, SameId)
     IN  IF relinkActiveId = NoId
         THEN /\ relinkTargets' = relinkTargets \ {el}
              /\ op' = Op("onRelinkClick", NoId, chatKey)
              /\ UNCHANGED <<markers, storage, pending, relinkActiveId, created>>
         ELSE IF idx # 0
         THEN /\ CanAwait
              /\ markers' = [markers EXCEPT ![idx] = [msgRef |-> data] @@ markers[idx]]
              /\ \E outcome \in WriteOutcomes :
                   /\ storage' = saveMarkers(storage, chatKey, markers', outcome)
                   /\ pending' = Append(pending, Relinked(relinkActiveId, outcome))
              /\ relinkTargets' = relinkTargets \ {el}
              /\ created' = {c \in created : c.id # relinkActiveId}
              /\ op' = Op("onRelinkClick", relinkActiveId, chatKey)
              /\ UNCHANGED relinkActiveId
         ELSE /\ cancelRelink
              /\ markers' = rebuildUI(markers, dom)
              /\ op' = Op("onRelinkClick", NoId, chatKey)
              /\ UNCHANGED <<storage, pending, created>>
  /\ UNCHANGED <<toast, varsHarness, dom, location, files, lastPathname, chatKey, ready, modalEl,
                 reading, nextId, importing, lastImport, exportedFrom, origin, loadedKey>>

\* onRelinkClick after `await saveMarkers` (whose catch has shown its toast, if
\* any): the toast of success, cancelRelink, rebuildUI
RelinkDone ==
  /\ pending # <<>> /\ Head(pending).k = "relinked"
  /\ pending' = Tail(pending)
  /\ toast' = RelinkedToast
  /\ cancelRelink
  /\ markers' = rebuildUI(markers, dom)
  /\ op' = Op("rebuildUI", NoId, chatKey)
  /\ UNCHANGED <<varsHarness, varsBrowser, lastPathname, chatKey, ready, modalEl,
                 reading, nextId, importing,
                 gestures, lastImport, exportedFrom, created, origin, loadedKey>>

\* the sidebar's Export button
ClickExport ==
  /\ ready /\ Gesture
  /\ files' = [files EXCEPT !.single = exportNotes(chatKey, markers)]
  /\ exportedFrom' = [exportedFrom EXCEPT
                       !.single = [NotExported EXCEPT ![chatKey] = entryMarkers(storage[chatKey])]]
  /\ toast' = ExportedToast
  /\ op' = Op("exportNotes", NoId, chatKey)
  /\ UNCHANGED <<varsHarness, dom, location, storage, lastPathname, chatKey, markers, ready,
                 modalEl, relinkActiveId, relinkTargets, pending, reading, nextId, importing,
                 lastImport, created, origin, loadedKey>>

\* the sidebar's file input changes: importNotes up to `await file.text()`
PickImport(p) ==
  /\ ready /\ Gesture
  /\ reading = <<>>
  /\ reading' = <<p>>
  /\ op' = Op("importNotes", NoId, chatKey)
  /\ UNCHANGED <<toast, varsHarness, varsBrowser, lastPathname, chatKey, markers, ready, modalEl,
                 relinkActiveId, relinkTargets, pending, nextId, importing,
                 lastImport, exportedFrom, created, origin, loadedKey>>

\* the record of an import's merge
Imported(path, p, key, base, storedBefore, incoming, result, storedAfter, added, ok, rejected) ==
  [done |-> TRUE, path |-> path, source |-> p.source, from |-> p.from, file |-> p.file,
   key |-> key, base |-> base, storedBefore |-> storedBefore, incoming |-> incoming,
   result |-> result, storedAfter |-> storedAfter, added |-> added, ok |-> ok,
   rejected |-> rejected,
   again |-> /\ lastImport.done
             /\ lastImport.path = path /\ lastImport.key = key
             /\ lastImport.incoming = incoming
             /\ CleanAll(lastImport.result) = CleanAll(base)]

\* importNotes from the parse to `await saveMarkers`, or to the catch
ImportRead ==
  /\ reading # <<>>
  /\ reading' = <<>>
  /\ LET p == Head(reading)
         r == importNotes(markers, p.file)
     IN  IF r.thrown # ""
         THEN /\ op' = Op("importNotes failed", NoId, chatKey)
              /\ toast' = ImportFailedToast
              /\ lastImport' =
                   IF Has(p.file, "markers")
                   THEN Imported("sidebar", p, chatKey, markers, entryMarkers(storage[chatKey]),
                                 p.file.markers, markers, entryMarkers(storage[chatKey]),
                                 0, FALSE, FALSE)
                   ELSE lastImport
              /\ UNCHANGED <<markers, storage, pending, origin>>
         ELSE /\ CanAwait
              /\ markers' = markers \o r.toAdd
              /\ \E outcome \in WriteOutcomes :
                   /\ storage' = saveMarkers(storage, chatKey, markers', outcome)
                   /\ pending' = Append(pending, ImportSaved(outcome))
                   /\ lastImport' =
                        Imported("sidebar", p, chatKey, markers,
                                 entryMarkers(storage[chatKey]), p.file.markers, markers',
                                 entryMarkers(storage'[chatKey]), Len(r.toAdd), TRUE,
                                 outcome # "ok")
              /\ origin' = origin \cup {<<id, loadedKey>> : id \in IdsOf(r.toAdd)}
              /\ op' = Op("importNotes", NoId, chatKey)
              /\ UNCHANGED toast
  /\ UNCHANGED <<varsHarness, dom, location, files, lastPathname, chatKey, ready, modalEl,
                 relinkActiveId, relinkTargets, nextId, importing,
                 gestures, exportedFrom, created, loadedKey>>

\* importNotes after `await saveMarkers` (whose catch has shown its toast, if
\* any): rebuildUI, the toast of success
ImportDone ==
  /\ pending # <<>> /\ Head(pending).k = "imported"
  /\ pending' = Tail(pending)
  /\ markers' = rebuildUI(markers, dom)
  /\ toast' = ImportedToast
  /\ op' = Op("rebuildUI", NoId, chatKey)
  /\ created' = IF \/ Head(pending).outcome # "ok"
                   \/ \E i \in 1..Len(pending') : pending'[i].k = "saved"
                THEN created
                ELSE {[c EXCEPT !.saved = TRUE] : c \in created}
  /\ UNCHANGED <<varsHarness, varsBrowser, lastPathname, chatKey, ready, modalEl,
                 relinkActiveId, relinkTargets, reading, nextId, importing,
                 gestures, lastImport, exportedFrom, origin, loadedKey>>

\* the user opens another conversation: the host changes the URL and renders it
Navigate(pathname) ==
  /\ ready /\ Gesture
  /\ pathname # location
  /\ location' = pathname
  /\ dom' = Page(pathname)
  /\ relinkTargets' = {}
  /\ op' = Op("navigate", NoId, chatKey)
  /\ UNCHANGED <<toast, varsHarness, storage, files, lastPathname, chatKey, markers, ready, modalEl,
                 relinkActiveId, pending, reading, nextId, importing,
                 lastImport, exportedFrom, created, origin, loadedKey>>

\* watchUrlChange's check finds a new pathname: onChatChange up to its await
onChatChange ==
  /\ ready /\ CanAwait
  /\ location # lastPathname
  /\ lastPathname' = location
  /\ modalEl' = NoModal
  /\ cancelRelink
  /\ chatKey' = deriveChatKey(location)
  /\ pending' = Append(pending, LoadTask(chatKey', storage[chatKey'], FALSE))
  /\ op' = Op("onChatChange", NoId, chatKey')
  /\ UNCHANGED <<toast, varsHarness, varsBrowser, markers, ready, reading, nextId, importing,
                 gestures, lastImport, exportedFrom, created, origin, loadedKey>>

\* the user reloads the tab: the script starts again, init up to its await
Reload ==
  /\ Gesture
  /\ dom' = Page(location)
  /\ lastPathname' = location
  /\ chatKey' = deriveChatKey(location)
  /\ markers' = <<>>
  /\ ready' = FALSE
  /\ modalEl' = NoModal
  /\ cancelRelink
  /\ pending' = << LoadTask(chatKey', storage[chatKey'], TRUE) >>
  /\ reading' = <<>>
  /\ toast' = NoToast
  /\ loadedKey' = chatKey'
  /\ op' = Op("reload", NoId, chatKey')
  /\ UNCHANGED <<varsHarness, location, storage, files, nextId, importing,
                 lastImport, exportedFrom, created, origin>>

(***************************************************************************)
(* options.js                                                              *)
(***************************************************************************)
\* the conversations importFile goes through: those of an all-chat export, or
\* the one of a single-chat export
Conversations(data) ==
  IF Has(data, "conversations") THEN data.conversations
  ELSE << [key |-> data.chatKey, markers |-> data.markers] >>

\* the options page's file input changes: importFile up to its first get
OptionsPickImport(p) ==
  /\ Gesture
  /\ ~importing.active
  /\ importing' = [active |-> TRUE, picked |-> p,
                   mode |-> IF Has(p.file, "conversations") THEN "all" ELSE "single",
                   i |-> 1, got |-> FALSE, raw |-> Undefined, imported |-> 0]
  /\ op' = Op("importFile", NoId, NoId)
  /\ UNCHANGED <<varsHarness, varsBrowser, varsContent,
                 lastImport, exportedFrom, created, origin, loadedKey>>

\* importFile at `await chrome.storage.local.get(key)`
OptionsImportGet ==
  /\ importing.active /\ ~importing.got
  /\ importing' = [importing EXCEPT
                     !.got = TRUE,
                     !.raw = storage[Conversations(importing.picked.file)[importing.i].key]]
  /\ op' = Op("importFile get", NoId, Conversations(importing.picked.file)[importing.i].key)
  /\ UNCHANGED <<varsHarness, varsBrowser, varsContent,
                 gestures, lastImport, exportedFrom, created, origin, loadedKey>>

\* importFile from the get's result to the next get, or to its end
OptionsImportSet ==
  /\ importing.active /\ importing.got
  /\ LET convs    == Conversations(importing.picked.file)
         conv     == convs[importing.i]
         existing == existingMarkers(importing.raw)
         toAdd    == OptionsToAdd(existing, conv.markers)
         write    == importing.mode = "single" \/ Len(toAdd) > 0
     IN  /\ storage' = IF write
                       THEN [storage EXCEPT ![conv.key] = Envelope(2, existing \o toAdd)]
                       ELSE storage
         /\ importing' = IF importing.i < Len(convs)
                         THEN [importing EXCEPT !.i = @ + 1, !.got = FALSE,
                                                !.raw = Undefined,
                                                !.imported = @ + Len(toAdd)]
                         ELSE Idle
         /\ origin' = origin \cup {<<id, conv.key>> : id \in IdsOf(toAdd)}
         /\ op' = Op("importFile set", NoId, conv.key)
         /\ lastImport' =
              Imported(importing.mode, importing.picked, conv.key,
                       entryMarkers(importing.raw), entryMarkers(storage[conv.key]),
                       conv.markers, entryMarkers(storage'[conv.key]),
                       entryMarkers(storage'[conv.key]), Len(toAdd), TRUE, FALSE)
  /\ UNCHANGED <<varsHarness, dom, location, files, varsContent,
                 gestures, exportedFrom, created, loadedKey>>

\* the Export All button, with something stored
OptionsExportAll ==
  /\ Gesture
  /\ loadAllEntries(storage) # <<>>
  /\ files' = [files EXCEPT !.all = exportAll(loadAllEntries(storage))]
  /\ exportedFrom' = [exportedFrom EXCEPT !.all = [k \in Keys |-> entryMarkers(storage[k])]]
  /\ op' = Op("exportAll", NoId, NoId)
  /\ UNCHANGED <<varsHarness, dom, location, storage, varsContent, importing,
                 lastImport, created, origin, loadedKey>>

\* the Clear All button, with something stored, confirmed
OptionsClearAll ==
  /\ Gesture
  /\ loadAllEntries(storage) # <<>>
  /\ storage' = [k \in Keys |-> Undefined]
  /\ created' = {}
  /\ op' = Op("clearAll", NoId, NoId)
  /\ UNCHANGED <<varsHarness, dom, location, files, varsContent, importing,
                 lastImport, exportedFrom, origin, loadedKey>>

\* the delete button of a conversation's row, confirmed
OptionsDelete(key) ==
  /\ Gesture
  /\ storage[key] # Undefined
  /\ storage' = [storage EXCEPT ![key] = Undefined]
  /\ created' = {c \in created : c.key # key}
  /\ op' = Op("remove", NoId, key)
  /\ UNCHANGED <<varsHarness, dom, location, files, varsContent, importing,
                 lastImport, exportedFrom, origin, loadedKey>>

Next ==
  \/ LoadDone
  \/ SaveDone
  \/ RelinkDone
  \/ Rescan
  \/ \E i \in 1..Len(dom) : ClickAdd(i)
  \/ \E id \in IdsOf(markers) : ClickEdit(id)
  \/ ModalCancel
  \/ ModalSave("n")
  \/ ModalDelete
  \/ \E id \in IdsOf(markers) : ClickDelete(id)
  \/ \E id \in IdsOf(markers) : startRelink(id)
  \/ \E el \in relinkTargets : onRelinkClick(el)
  \/ ClickExport
  \/ \E p \in Pickable : PickImport(p)
  \/ ImportRead
  \/ ImportDone
  \/ \E pathname \in Paths : Navigate(pathname)
  \/ onChatChange
  \/ Reload
  \/ \E p \in Pickable : OptionsPickImport(p)
  \/ OptionsImportGet
  \/ OptionsImportSet
  \/ OptionsExportAll
  \/ OptionsClearAll
  \/ \E key \in Keys : OptionsDelete(key)

Spec == Init /\ [][Next]_vars

(***************************************************************************)
(* The resolver on its own: remapMarkers over any stored list and any page *)
(* of the bounds, with the rest of the extension at rest.                  *)
(***************************************************************************)
AtRest ==
  /\ location = PathA
  /\ storage = [k \in Keys |-> Undefined]
  /\ files = [single |-> NoFile, all |-> NoFile]
  /\ lastPathname = PathA
  /\ chatKey = deriveChatKey(PathA)
  /\ markers = <<>>
  /\ ready = FALSE
  /\ modalEl = NoModal
  /\ relinkActiveId = NoId
  /\ relinkTargets = {}
  /\ pending = <<>>
  /\ reading = <<>>
  /\ nextId = 0
  /\ toast = NoToast
  /\ importing = Idle
  /\ gestures = 0
  /\ op = Op("start", NoId, NoId)
  /\ lastImport = NoImport
  /\ exportedFrom = [single |-> NotExported, all |-> NotExported]
  /\ created = {}
  /\ origin = {}
  /\ loadedKey = deriveChatKey(PathA)

\* the storedMarkers argument and the page remapMarkers is first called on
InitResolve ==
  /\ dom \in {<<>>} \cup ScenarioDoms
  /\ stored \in StoredLists
  /\ remapped = NotCalled
  /\ trial = NoTrial
  /\ AtRest

\* the host renders one more message
AppendMessage ==
  /\ Len(dom) < MaxMsgs
  /\ \E e \in Elements : dom' = Append(dom, e)
  /\ remapped' = NotCalled
  /\ UNCHANGED <<stored, trial, location, storage, files, varsContent, varsOptions, varsHistory>>

\* rebuildUI's two lines: discoverMessages, then remapMarkers over the result
Remap ==
  /\ ~remapped.called
  /\ LET currentMsgs == discoverMessages(dom)
     IN  remapped' = [called |-> TRUE, msgs |-> currentMsgs,
                      out |-> remapMarkers(stored, currentMsgs)]
  /\ UNCHANGED <<stored, trial, varsBrowser, varsContent, varsOptions, varsHistory>>

NextResolve == AppendMessage \/ Remap

SpecResolve == InitResolve /\ [][NextResolve]_vars

(***************************************************************************)
(* migrateSchema on its own: what loadMarkers reads under a key, in every  *)
(* stored shape and version, migrated once and then once more.             *)
(***************************************************************************)
MaxStored == 2

\* the references a stored marker may carry: as the code writes them, and as
\* version 1 wrote them, without hash, with an empty hash, without snippet,
\* without role
MigrationRefs ==
  { RefA(1), Without(RefA(1), {"hash"}), [RefA(1) EXCEPT !.hash = <<>>],
    Without(RefA(1), {"hash", "snippet"}), Without(RefA(1), {"hash", "role"}) }

MigrationMarkers == {NoteMarker("cm-1", r, "x") : r \in MigrationRefs} \cup {BareMarker("cm-1")}

MigrationLists == UNION {[1..n -> MigrationMarkers] : n \in 0..MaxStored}

StoredVersions == {0, 1, SCHEMA_VERSION, SCHEMA_VERSION + 1}

\* a bare array, an envelope of any version, an envelope without schemaVersion,
\* an envelope without markers
StoredRaws ==
  {ArrayOf(ms) : ms \in MigrationLists}
    \cup {Envelope(v, ms) : v \in StoredVersions, ms \in MigrationLists}
    \cup {Without(Envelope(1, ms), {"schemaVersion"}) : ms \in MigrationLists}
    \cup {Without(Envelope(v, <<>>), {"markers"}) : v \in StoredVersions}

NotYet == [schemaVersion |-> 0, markers |-> <<>>]

InitMigrate ==
  /\ dom = <<>> /\ stored = <<>> /\ remapped = NotCalled
  /\ AtRest
  /\ trial \in {[step |-> "stored", raw |-> r, data |-> NotYet, once |-> NotYet,
                 twice |-> NotYet] : r \in StoredRaws}

\* loadMarkers's normalisation of what it read
ReadStored ==
  /\ trial.step = "stored"
  /\ trial' = [trial EXCEPT !.step = "read", !.data = asData(trial.raw)]
  /\ UNCHANGED <<stored, remapped, varsBrowser, varsContent, varsOptions, varsHistory>>

\* migrateSchema(data)
Migrate ==
  /\ trial.step = "read"
  /\ trial' = [trial EXCEPT !.step = "once", !.once = migrateSchema(trial.data)]
  /\ UNCHANGED <<stored, remapped, varsBrowser, varsContent, varsOptions, varsHistory>>

\* migrateSchema over its own result, as the next load of a saved collection
MigrateAgain ==
  /\ trial.step = "once"
  /\ trial' = [trial EXCEPT !.step = "twice", !.twice = migrateSchema(trial.once)]
  /\ UNCHANGED <<stored, remapped, varsBrowser, varsContent, varsOptions, varsHistory>>

NextMigrate == ReadStored \/ Migrate \/ MigrateAgain

SpecMigrate == InitMigrate /\ [][NextMigrate]_vars

\* the annotations of a collection
Annotations(data) == IF Has(data, "markers") THEN data.markers ELSE <<>>

\* the collection is of the current version
Current(data) ==
  /\ Has(data, "schemaVersion") /\ data.schemaVersion >= SCHEMA_VERSION
  /\ Has(data, "markers")

\* C11: migrating what a migration returned returns the same; migrating a
\* collection of the current version returns it unchanged; a migration
\* returns as many annotations as it was given.
C11_MigrationIdempotent ==
  /\ trial.step = "twice" => trial.twice = trial.once
  /\ trial.step \in {"once", "twice"} =>
       /\ Current(trial.data) => trial.once = trial.data
       /\ Len(trial.once.markers) >= Len(Annotations(trial.data))

\* a bare array with a marker whose hash the first migration filled in has
\* been migrated twice
C11_Witness ==
  /\ trial.step = "twice"
  /\ trial.raw.shape = "array"
  /\ Len(trial.raw.markers) > 0
  /\ trial.once.markers # trial.raw.markers

(***************************************************************************)
(* The merge of the two import paths on its own: two files merged into a   *)
(* base in one order and in the other.                                     *)
(***************************************************************************)
MaxIncoming == 2

\* importNotes from the parse to the assignment of markers: the sequence in
\* memory after the import of a file listing `incoming`
mergeNotes(ms, incoming) ==
  LET r == importNotes(ms, [markers |-> incoming])
  IN  IF r.thrown # "" THEN ms ELSE ms \o r.toAdd

\* importFile that stores the incoming markers alone
mergeFile_IncomingOnly(mode, raw, incoming) ==
  Envelope(2, incoming)

\* importFile from a get's result to its set: the value under the key after
\* the import of `incoming` in a single-chat file or in a conversation of an
\* all-chat file
mergeFile(mode, raw, incoming) ==
  LET existing == existingMarkers(raw)
      toAdd    == OptionsToAdd(existing, incoming)
  IN  IF mode = "single" \/ Len(toAdd) > 0 THEN Envelope(2, existing \o toAdd) ELSE raw

\* one import of a path into a collection of that path
merge(path, coll, incoming) ==
  IF path = "sidebar" THEN mergeNotes(coll, incoming) ELSE mergeFile(path, coll, incoming)

\* the ids a collection of a path holds
idsIn(path, coll) ==
  IF path = "sidebar" THEN IdsOf(coll) ELSE IdsOf(entryMarkers(coll))

\* the records a file may list: new, of an id the base has, without msgRef
IncomingRecords ==
  { NoteMarker("cm-1", RefA(2), "y"), NoteMarker("cm-2", RefA(1), "z"), BareMarker("cm-3") }

IncomingLists == UNION {[1..n -> IncomingRecords] : n \in 0..MaxIncoming}

\* the bases: the markers in memory for the sidebar; the stored value, an
\* envelope, a bare array or nothing, for the options page
BaseLists ==
  { <<>>, << NoteMarker("cm-1", RefA(2), "x") >>, << BareMarker("cm-3") >>,
    << NoteMarker("cm-2", RefA(1), "z"), NoteMarker("cm-1", RefA(2), "x") >> }

Bases(path) ==
  IF path = "sidebar" THEN BaseLists
  ELSE {Undefined} \cup {Envelope(2, ms) : ms \in BaseLists}
                    \cup {ArrayOf(ms) : ms \in BaseLists}

ImportPaths == {"sidebar", "single", "all"}

InitMerge ==
  /\ dom = <<>> /\ stored = <<>> /\ remapped = NotCalled
  /\ AtRest
  /\ \E path \in ImportPaths : \E b \in Bases(path) : \E a \in IncomingLists :
       \E c \in IncomingLists :
         trial = [step |-> "given", path |-> path, base |-> b, a |-> a, c |-> c,
                  ba |-> b, bac |-> b, bc |-> b, bca |-> b]

\* A is imported into the base
MergeA ==
  /\ trial.step = "given"
  /\ trial' = [trial EXCEPT !.step = "a", !.ba = merge(trial.path, trial.base, trial.a)]
  /\ UNCHANGED <<stored, remapped, varsBrowser, varsContent, varsOptions, varsHistory>>

\* then C
MergeCAfterA ==
  /\ trial.step = "a"
  /\ trial' = [trial EXCEPT !.step = "ac", !.bac = merge(trial.path, trial.ba, trial.c)]
  /\ UNCHANGED <<stored, remapped, varsBrowser, varsContent, varsOptions, varsHistory>>

\* C is imported into the base
MergeC ==
  /\ trial.step = "ac"
  /\ trial' = [trial EXCEPT !.step = "c", !.bc = merge(trial.path, trial.base, trial.c)]
  /\ UNCHANGED <<stored, remapped, varsBrowser, varsContent, varsOptions, varsHistory>>

\* then A
MergeAAfterC ==
  /\ trial.step = "c"
  /\ trial' = [trial EXCEPT !.step = "ca", !.bca = merge(trial.path, trial.bc, trial.a)]
  /\ UNCHANGED <<stored, remapped, varsBrowser, varsContent, varsOptions, varsHistory>>

NextMerge == MergeA \/ MergeCAfterA \/ MergeC \/ MergeAAfterC

SpecMerge == InitMerge /\ [][NextMerge]_vars

\* C12: A then C, and C then A, imported into the same base by the same path,
\* leave the same set of annotation ids.
C12_MergeCommutes ==
  trial.step = "ca" => idsIn(trial.path, trial.bac) = idsIn(trial.path, trial.bca)

\* both orders have been merged into a base that holds something, each file
\* added something, and the two results differ in order
C12_Witness ==
  /\ trial.step = "ca"
  /\ idsIn(trial.path, trial.base) # {}
  /\ idsIn(trial.path, trial.ba) # idsIn(trial.path, trial.base)
  /\ idsIn(trial.path, trial.bac) # idsIn(trial.path, trial.ba)
  /\ trial.bac # trial.bca

\* the annotations a collection of a path holds
markersIn(path, coll) == IF path = "sidebar" THEN coll ELSE entryMarkers(coll)

\* C13: after an import of either path, every record the import added has an
\* id, a msgRef and a note, and every record of the file that has them and
\* whose id the base lacked has been added.
C13_ImportValidates ==
  trial.step # "given" =>
    LET before == idsIn(trial.path, trial.base)
        after  == markersIn(trial.path, trial.ba)
    IN  /\ \A i \in 1..Len(after) :
             (Has(after[i], "id") /\ after[i].id \notin before) => ValidMarker(after[i])
        /\ \A j \in 1..Len(trial.a) :
             (ValidMarker(trial.a[j]) /\ trial.a[j].id \notin before)
               => trial.a[j].id \in idsIn(trial.path, trial.ba)

(***************************************************************************)
(* Properties of the extension at work (under Spec)                        *)
(***************************************************************************)
\* how often id occurs in ms
Occurrences(ms, id) == Cardinality({i \in 1..Len(ms) : Has(ms[i], "id") /\ ms[i].id = id})

\* the incoming annotations whose id the base does not have, in incoming order
Appended(base, incoming) ==
  LET Absent(m) == ~(Has(m, "id") /\ m.id \in IdsOf(base))
  IN  SelectSeq(incoming, Absent)

\* C1: after an import of either path, the collection is the base sequence
\* unchanged, followed by the incoming annotations whose id the base did not
\* have, in incoming order, and the added count is the number of those.
C1_MergeBaseWins ==
  lastImport.done =>
    /\ CleanAll(lastImport.result)
         = CleanAll(lastImport.base) \o Appended(lastImport.base, lastImport.incoming)
    /\ lastImport.added = Len(Appended(lastImport.base, lastImport.incoming))

\* C2: after an import into a base that lists no id twice, every id of the
\* base or of the incoming file occurs exactly once in the result, and an
\* import of the same file into the result of the import before adds nothing.
C2_MergeIdempotentNoDuplicates ==
  (/\ lastImport.done
   /\ \A id \in IdsOf(lastImport.base) : Occurrences(lastImport.base, id) = 1)
  =>
    /\ \A id \in IdsOf(lastImport.base) \cup IdsOf(lastImport.incoming) :
         Occurrences(lastImport.result, id) = 1
    /\ lastImport.again => lastImport.added = 0

\* an exported file has been imported by the matching path into an empty
\* collection under the key it was exported from, and no write was rejected
RoundTrip ==
  /\ lastImport.done
  /\ lastImport.source = "exported"
  /\ \/ lastImport.path = "sidebar" /\ lastImport.key = lastImport.file.chatKey
     \/ lastImport.path = "all"
  /\ ~lastImport.rejected
  /\ lastImport.base = <<>>
  /\ lastImport.storedBefore = <<>>

\* C3: after a round trip, storage holds under the key exactly the annotation
\* sequence it held when the file was exported, transient fields aside.
C3_RoundTrip ==
  RoundTrip => CleanAll(lastImport.storedAfter) = CleanAll(lastImport.from[lastImport.key])

\* the tab has been reloaded and init's load has succeeded
Reloaded == op.name = "loaded" /\ op.id = "init"

\* the marker of markers with this id, resolved to this element
ResolvedAt(id, el) ==
  \E i \in 1..Len(markers) :
    /\ Has(markers[i], "id") /\ markers[i].id = id
    /\ Has(markers[i], "_missing") /\ markers[i]._missing = FALSE
    /\ Has(markers[i], "_domEl") /\ markers[i]._domEl = el

\* C4: after a reload of the conversation a marker was created and saved in,
\* the marker is present, not missing, and resolved to the message it was
\* created on.
C4_PersistsAcrossReload ==
  Reloaded =>
    \A c \in created :
      (c.saved /\ c.key = chatKey /\ c.path = location) => ResolvedAt(c.id, c.el)

\* C5: every annotation stored under a key was loaded from that key, or
\* created or imported while that key's collection was the one in memory.
C5_PerChatSeparation ==
  \A k \in Keys : \A id \in IdsOf(entryMarkers(storage[k])) : <<id, k>> \in origin

\* the step is an explicit delete of the annotation id stored under k: of the
\* annotation, of its collection, or of everything
ExplicitDelete(k, id) ==
  \/ op'.name = "deleteMarker" /\ op'.id = id
  \/ op'.name = "remove" /\ op'.key = k
  \/ op'.name = "clearAll"

\* C6: an annotation stored under a key is still stored under it after every
\* step that is not an explicit delete of it.
C6_RemovedOnlyByDelete ==
  [][\A k \in Keys : \A id \in IdsOf(entryMarkers(storage[k])) :
       id \in IdsOf(entryMarkers(storage'[k])) \/ ExplicitDelete(k, id)]_vars


\* the references the markers of this id carry
ReferencesOf(ms, id) ==
  {ms[i].msgRef : i \in {j \in 1..Len(ms) : Has(ms[j], "id") /\ ms[j].id = id
                                            /\ Has(ms[j], "msgRef")}}

\* C14: while the save of a click that re-linked a marker is in flight and the
\* re-link session is still that marker's, no step gives the marker another
\* reference: one session overwrites the reference at most once.
C14_RelinkAtMostOnce ==
  [][\A i \in 1..Len(pending) :
       (pending[i].k = "relinked" /\ pending[i].id = relinkActiveId)
         => \/ ReferencesOf(markers', relinkActiveId) = ReferencesOf(markers, relinkActiveId)
            \/ ReferencesOf(markers', relinkActiveId) = {}]_vars

\* the annotation carries a field of the resolution
Transient(m) == Has(m, "_domEl") \/ Has(m, "_missing")

\* the annotations a downloaded file lists
FileMarkers(f) ==
  IF Has(f, "markers") THEN {f.markers[i] : i \in 1..Len(f.markers)}
  ELSE IF Has(f, "conversations")
  THEN UNION {{f.conversations[c].markers[i] : i \in 1..Len(f.conversations[c].markers)} :
                c \in 1..Len(f.conversations)}
  ELSE {}

\* C15: no annotation stored under a key, and none in an exported file,
\* carries _domEl or _missing.
C15_TransientNeverPersisted ==
  /\ \A k \in Keys : \A i \in 1..Len(entryMarkers(storage[k])) :
       ~Transient(entryMarkers(storage[k])[i])
  /\ \A m \in FileMarkers(files.single) \cup FileMarkers(files.all) : ~Transient(m)

\* the step resumes a handler whose save was rejected for the quota
ResumesAfterQuota ==
  /\ pending # <<>>
  /\ Head(pending).k \in {"saved", "imported", "relinked"}
  /\ Head(pending).outcome = "quota"
  /\ pending' = Tail(pending)
  /\ gestures' = gestures

\* the step calls saveMarkers and the set is rejected
SaveRejected ==
  /\ Len(pending') = Len(pending) + 1
  /\ pending'[Len(pending')].k \in {"saved", "imported", "relinked"}
  /\ pending'[Len(pending')].outcome # "ok"

\* C16: a save rejected for the quota leaves the stored values as they were,
\* and when its handler has ended the toast is the one of the exceeded quota
\* and the markers in memory are those the handler saved.
C16_QuotaExceededReported ==
  [][/\ SaveRejected => storage' = storage
     /\ ResumesAfterQuota =>
          /\ toast' = QuotaToast
          /\ CleanAll(markers') = CleanAll(markers)]_vars

(***************************************************************************)
(* Properties of the resolver (under SpecResolve)                          *)
(***************************************************************************)
\* the scan the call worked on
Msgs == remapped.msgs

First(S) == CHOOSE i \in S : \A j \in S : i <= j

\* the messages the three signals of a reference point at
HashMatches(ref) ==
  {k \in 1..Len(Msgs) : Has(ref, "hash") /\ Msgs[k].hash = ref.hash}
SameRole(ref) ==
  {k \in 1..Len(Msgs) : Has(ref, "role") /\ Msgs[k].role = ref.role}
CarriesSnippet(ref) == Has(ref, "snippet") /\ ref.snippet # <<>>
PrefixMatches(ref) ==
  IF CarriesSnippet(ref)
  THEN {k \in SameRole(ref) :
          StartsWith(ToLowerCase(Msgs[k].snippet),
                     ToLowerCase(Slice(ref.snippet, PrefixLen)))}
  ELSE {}
Distance(ref, k) == Abs(Msgs[k].index - ref.indexHint)

ResolvedTo(i, k) ==
  /\ remapped.out[i]._domEl = Msgs[k].el
  /\ remapped.out[i]._missing = FALSE
Missing(i) ==
  /\ remapped.out[i]._domEl = Null
  /\ remapped.out[i]._missing = TRUE

WithRef == {i \in 1..Len(stored) : Has(stored[i], "msgRef")}

\* C7: whenever some message has the reference's hash, the marker resolves to
\* the first such message in scan order, whatever message its snippet or its
\* indexHint would point at.
C7_TierPrecedence ==
  remapped.called =>
    \A i \in WithRef :
      HashMatches(stored[i].msgRef) # {}
        => ResolvedTo(i, First(HashMatches(stored[i].msgRef)))

\* C7's case: the hash is that of one message while another message of the
\* same role matches the snippet prefix and is nearer to the indexHint.
C7_Witness ==
  /\ remapped.called
  /\ \E i \in WithRef :
       LET ref == stored[i].msgRef
       IN  /\ HashMatches(ref) # {}
           /\ Has(ref, "indexHint")
           /\ \E k \in PrefixMatches(ref) :
                /\ k # First(HashMatches(ref))
                /\ Distance(ref, k) < Distance(ref, First(HashMatches(ref)))
           /\ ResolvedTo(i, First(HashMatches(ref)))

C9_SnippetPrefix ==
  remapped.called =>
    \A i \in WithRef :
      LET ref == stored[i].msgRef
      IN  HashMatches(ref) = {} =>
            /\ PrefixMatches(ref) # {} => ResolvedTo(i, First(PrefixMatches(ref)))
            /\ \A k \in 1..Len(Msgs) : ResolvedTo(i, k) => k \in SameRole(ref)
            /\ (~CarriesSnippet(ref) /\ ~Has(ref, "indexHint")) => Missing(i)

\* C9's case: the match rests on the truncation and on the case folding: the
\* message's snippet starts neither with the whole snippet of the reference
\* nor, case-sensitively, with its prefix.
C9_Witness ==
  /\ remapped.called
  /\ \E i \in WithRef :
       LET ref == stored[i].msgRef
       IN  /\ HashMatches(ref) = {}
           /\ PrefixMatches(ref) # {}
           /\ LET k == First(PrefixMatches(ref))
              IN  /\ ResolvedTo(i, k)
                  /\ ~StartsWith(ToLowerCase(Msgs[k].snippet), ToLowerCase(ref.snippet))
                  /\ ~StartsWith(Msgs[k].snippet, Slice(ref.snippet, PrefixLen))

\* no tier has a message for marker i
NoTier(i) ==
  \/ i \notin WithRef
  \/ LET ref == stored[i].msgRef
     IN  /\ HashMatches(ref) = {}
         /\ PrefixMatches(ref) = {}
         /\ ~Has(ref, "indexHint") \/ SameRole(ref) = {}

====
